---- MODULE Spec2Model ----
(***************************************************************************)
(* The project repository of baralga (DbProjectRepository) over its        *)
(* relational store.  The store is the tables projects and activities;     *)
(* every repository method is run by a caller, one store call per step,    *)
(* so that calls of different callers interleave at the store.             *)
(***************************************************************************)
EXTENDS Integers, Sequences, FiniteSets, TLC

(* ------------------------------ bounds -------------------------------- *)

\* calls started in one behaviour
MaxOps == 2
\* render calls made in one behaviour
MaxRenders == 2
\* store calls that fail (storage error, cancelled context, unexpected row)
MaxFaults == 1
\* activity rows in the initial store
MaxActs == 1

Callers == {"c1", "c2"}
Orgs == {"O1", "O2"}
ProjectIDs == {"P1", "P2"}
Titles == {"Alpha", "Beta"}
Descriptions == {"", "x"}
PageSizes == {1, 2}
PageNumbers == {1, 2}

\* collation rank of a title under ORDER BY title ASC
TitleRank(t) == IF t = "Alpha" THEN 1 ELSE 2

(* ------------------------------ values -------------------------------- *)

\* uuid.UUID zero value, the OrganizationID of a Project built without one
NilUUID == "00000000-0000-0000-0000-000000000000"

NoRow == [absent |-> TRUE]

\* a description column value: sql.NullString
NullString(s, valid) == [String |-> s, Valid |-> valid]
SqlNull == NullString("", FALSE)
DescriptionColumns == {NullString(d, TRUE) : d \in Descriptions} \cup {SqlNull}

\* a row of table projects (project_id is the key of the function projects)
ProjectRows ==
    [org_id : Orgs, title : Titles, description : DescriptionColumns, active : BOOLEAN]

\* the Go struct Project
Project(id, org, title, description, active) ==
    [ID |-> id, OrganizationID |-> org, Title |-> title,
     Description |-> description, Active |-> active]

\* the title, description and active flag of the Project values callers pass in
Contents ==
    {[Title |-> "Alpha", Description |-> "", Active |-> TRUE],
     [Title |-> "Beta", Description |-> "x", Active |-> FALSE]}

\* the Project values callers pass in
ProjectValues ==
    {Project(id, org, v.Title, v.Description, v.Active) :
        id \in ProjectIDs, org \in Orgs, v \in Contents}

NoProject == [none |-> TRUE]

\* errors: kind is the sentinel or message, wrapped the kind of the cause
Err(kind) == [kind |-> kind, wrapped |-> "none"]
Nil == Err("nil")
ErrNoRows == Err("pgx.ErrNoRows")
ErrProjectNotFound == Err("project not found")
ErrStorage == Err("storage error")
ErrContext == Err("context canceled")
\* errors.Wrap(err, msg)
Wrap(err, msg) == [kind |-> msg, wrapped |-> err.kind]

(* ------------------------------- state -------------------------------- *)

VARIABLES
    projects,    \* table projects, committed: project_id -> row or NoRow
    activities,  \* table activities, committed: set of rows
    call,        \* per caller: the call it is in and the position in it
    leaked,      \* transactions left open by a call that returned
    last,        \* the call that returned last, with its result
    listing,     \* pages returned by consecutive FindProjects calls
    nops,        \* calls started
    nfaults,     \* failed store calls
    w,           \* the http.ResponseWriter of the render call made last
    logged,      \* the lines written to the log
    rendered     \* the render calls made, each with its response

vars ==
    <<projects, activities, call, leaked, last, listing, nops, nfaults, w, logged, rendered>>


(* --------------------------- the store's SQL -------------------------- *)

Min(a, b) == IF a < b THEN a ELSE b

\* mutant: the WHERE clause without AND org_id = $2
WhereProjectAnyOrg(projs, pid, org) ==
    projs[pid] # NoRow

\* WHERE project_id = $1 AND org_id = $2 on table projects
WhereProject(projs, pid, org) ==
    /\ projs[pid] # NoRow
    /\ projs[pid].org_id = org

\* mutant: the WHERE clause without org_id = $1
WhereAnyIDAnyOrg(projs, org, ids) ==
    {p \in ProjectIDs : projs[p] # NoRow /\ p \in ids}

\* WHERE org_id = $1 AND project_id = any($2) on table projects
WhereAnyID(projs, org, ids) ==
    {p \in ProjectIDs : projs[p] # NoRow /\ projs[p].org_id = org /\ p \in ids}

\* WHERE org_id = $1 on table projects
SelectProjects(projs, org) ==
    {p \in ProjectIDs : projs[p] # NoRow /\ projs[p].org_id = org}

Perms(S) ==
    {s \in [1..Cardinality(S) -> S] : \A i, j \in 1..Cardinality(S) : i # j => s[i] # s[j]}

\* ORDER BY title ASC: every order of the rows that ascends by title; the
\* order of rows with equal titles is the store's choice, made anew per query
OrderByTitle(projs, ids) ==
    {s \in Perms(ids) :
        \A i \in 1..(Len(s) - 1) :
            TitleRank(projs[s[i]].title) <= TitleRank(projs[s[i + 1]].title)}

\* LIMIT $2 OFFSET $3
LimitOffset(s, limit, offset) == SubSeq(s, offset + 1, Min(offset + limit, Len(s)))

\* paged.PageParams.Offset
Offset(size, page) == (page - 1) * size

\* paged.PageParams.PageOfTotal
PageOfTotal(size, page, total) == [Number |-> page, Size |-> size, TotalElements |-> total]

\* rows.Scan / row.Scan into id, title, description, active and the Project
\* built from them: OrganizationID is not set
ScanProject(pid, row) ==
    Project(pid, NilUUID, row.title, row.description.String, row.active)

\* the row INSERT INTO projects writes for a Project
InsertValues(project) ==
    [org_id |-> project.OrganizationID, title |-> project.Title,
     description |-> NullString(project.Description, TRUE), active |-> project.Active]

\* mutant: SET active = NOT active in place of active = $5
UpdateSetToggle(row, project) ==
    [row EXCEPT !.title = project.Title,
                !.description = NullString(project.Description, TRUE),
                !.active = ~row.active]

\* mutant: the description left out of SET
UpdateSetKeepDescription(row, project) ==
    [row EXCEPT !.title = project.Title, !.active = project.Active]

\* mutant: SET also writes org_id from the Project
UpdateSetOwner(row, project) ==
    [row EXCEPT !.org_id = project.OrganizationID,
                !.title = project.Title,
                !.description = NullString(project.Description, TRUE),
                !.active = project.Active]

\* SET title = $3, description = $4, active = $5
UpdateSet(row, project) ==
    [row EXCEPT !.title = project.Title,
                !.description = NullString(project.Description, TRUE),
                !.active = project.Active]

\* WHERE project_id = $1 AND org_id = $2 on table activities
WhereActivities(acts, pid, org) ==
    {a \in acts : a.project_id = pid /\ a.org_id = org}

(* ---------------------------- transactions ---------------------------- *)

\* the uncommitted writes of a transaction
NoTx == [acts |-> {}, del |-> {}, ins |-> {}]

\* mutant: the DELETE FROM activities run on the pool, outside the transaction
ExecDeleteActivitiesOnPool(acts, tx, pid, org) ==
    [activities |-> acts \ WhereActivities(acts, pid, org), tx |-> tx]

\* tx.Exec DELETE FROM activities: the rows are deleted in the transaction,
\* the committed table keeps them until Commit
ExecDeleteActivities(acts, tx, pid, org) ==
    [activities |-> acts,
     tx |-> [tx EXCEPT !.acts = WhereActivities(acts, pid, org)]]

\* tx.Commit: the writes of the transaction reach the committed tables
CommitProjects(projs, tx) ==
    [p \in ProjectIDs |->
        IF p \in tx.del THEN NoRow
        ELSE IF \E i \in tx.ins : i.id = p THEN (CHOOSE i \in tx.ins : i.id = p).row
        ELSE projs[p]]

\* mutant: the activity rows survive the Commit (no DELETE FROM activities)
CommitActivitiesKept(acts, tx) == acts

CommitActivities(acts, tx) == acts \ tx.acts

(* ------------------------ the methods' own logic ---------------------- *)

\* mutant: every Scan error reported as ErrProjectNotFound
FindProjectByIDReturnAllNotFound(scan) ==
    IF scan.err # Nil
    THEN [res |-> ErrProjectNotFound, out |-> NoProject]
    ELSE [res |-> Nil, out |-> ScanProject(scan.id, scan.row)]

\* FindProjectByID, lines 157-173: scan is the outcome of row.Scan
FindProjectByIDReturn(scan) ==
    IF scan.err # Nil
    THEN IF scan.err = ErrNoRows
         THEN [res |-> ErrProjectNotFound, out |-> NoProject]
         ELSE [res |-> scan.err, out |-> NoProject]
    ELSE [res |-> Nil, out |-> ScanProject(scan.id, scan.row)]

\* UpdateProject, lines 221-230
UpdateProjectReturn(scan, project) ==
    IF scan.err # Nil
    THEN IF scan.err = ErrNoRows
         THEN [res |-> ErrProjectNotFound, out |-> NoProject]
         ELSE [res |-> scan.err, out |-> NoProject]
    ELSE [res |-> Nil, out |-> project]

\* InsertProject lines 194-200 and DeleteProjectByID lines 245-251: the
\* statement failed with err, rb is what tx.Rollback returned
RollbackReturn(err, rb) ==
    IF rb # Nil THEN Wrap(rb, "rollback error") ELSE err

\* mutant: pgx.ErrNoRows checked before the Rollback error
ScanRollbackReturnNoRowsFirst(err, rb) ==
    IF err = ErrNoRows THEN ErrProjectNotFound
    ELSE IF rb # Nil THEN Wrap(rb, "rollback error")
    ELSE err

\* DeleteProjectByID lines 262-273: row.Scan failed with err
ScanRollbackReturn(err, rb) ==
    IF rb # Nil THEN Wrap(rb, "rollback error")
    ELSE IF err = ErrNoRows THEN ErrProjectNotFound
    ELSE err

(* --------------------------- calls and history ------------------------ *)

\* a caller outside any call
IdleCall ==
    [pc |-> "idle", org |-> "none", id |-> "none", project |-> NoProject,
     size |-> 0, page |-> 0, tx |-> NoTx, err |-> Nil, cancelled |-> FALSE,
     fault |-> FALSE, rows |-> <<>>, matched |-> FALSE]

\* positions at which the caller holds an open transaction
TxPcs ==
    {"ins_exec", "ins_rollback", "ins_commit",
     "del_exec", "del_rollback", "del_query", "del_scan_rollback", "del_commit"}

NoArgs ==
    [org |-> "none", id |-> "none", project |-> NoProject, size |-> 0, page |-> 0,
     ids |-> {}]
ArgsOf(cl) ==
    [org |-> cl.org, id |-> cl.id, project |-> cl.project, size |-> cl.size, page |-> cl.page,
     ids |-> {}]

NoPrev == [op |-> "none", project |-> NoProject, caller |-> "none"]

\* what a call keeps of the call l that returned right before it: its name
\* and Project argument, when l succeeded on the same organization and
\* project identifier
Summary(l, a) ==
    IF l.res = Nil /\ l.org = a.org /\ l.id = a.id
    THEN [op |-> l.op, project |-> l.project, caller |-> l.caller]
    ELSE NoPrev

NoCall ==
    [n |-> 0, caller |-> "none", op |-> "none", org |-> "none", id |-> "none",
     project |-> NoProject, size |-> 0, page |-> 0, ids |-> {}, res |-> Nil,
     out |-> NoProject,
     fault |-> FALSE, cancelled |-> FALSE, matched |-> FALSE, began |-> FALSE,
     ended |-> "none", changed |-> FALSE, acts |-> 0, err |-> Nil, rb |-> Nil,
     prev |-> NoPrev]

\* the record of a call that returns: the caller (kept for UpdateProject,
\* to tell the updates of two callers apart), a its arguments, r what it returns,
\* h what happened in it (a store call failed, the context was cancelled,
\* the key was that of a stored row, a transaction began, how it was ended,
\* whether the committed tables changed, the activity rows its transaction
\* deleted, the error of its failed statement, the error of its Rollback)
Returned(c, op, a, r, h) ==
    [n |-> last.n + 1, caller |-> IF op = "UpdateProject" THEN c ELSE "none",
     op |-> op, org |-> a.org, id |-> a.id,
     project |-> a.project, size |-> a.size, page |-> a.page, ids |-> a.ids,
     res |-> r.res, out |-> r.out,
     fault |-> h.fault, cancelled |-> h.cancelled, matched |-> h.matched,
     began |-> h.began, ended |-> h.ended, changed |-> h.changed,
     acts |-> h.acts, err |-> h.err, rb |-> h.rb,
     prev |-> Summary(last, a)]

NoListing == [org |-> "none", size |-> 0, pages |-> <<>>]

\* the pages of consecutive FindProjects queries 1, 2, ... of one
\* organization and page size over an unchanged store
ListingAfter(org, size, page, rows) ==
    IF page = 1 THEN [org |-> org, size |-> size, pages |-> <<rows>>]
    ELSE IF listing.org = org /\ listing.size = size /\ Len(listing.pages) = page - 1
         THEN [listing EXCEPT !.pages = Append(@, rows)]
         ELSE NoListing

(* ------------------------- the store's failures ----------------------- *)

\* what a store call can do: succeed, fail with a storage error, or be
\* aborted by the caller's context; a cancelled context fails every later
\* store call made with it
Outcomes(cancelled) ==
    IF cancelled THEN {"cancel"}
    ELSE IF nfaults < MaxFaults THEN {"ok", "error", "cancel"}
    ELSE {"ok"}

Charge(o, cancelled) == IF o = "ok" \/ cancelled THEN 0 ELSE 1

FaultErr(o) == IF o = "cancel" THEN ErrContext ELSE ErrStorage

\* the transactions other than c's own that are open
OpenTxs(c) ==
    {call[d].tx : d \in {e \in Callers \ {c} : call[e].pc \in TxPcs}} \cup leaked

\* rows written by an open transaction: a statement on them waits
LockedProjects(c) == UNION {t.del \cup {i.id : i \in t.ins} : t \in OpenTxs(c)}
LockedActivities(c) == UNION {t.acts : t \in OpenTxs(c)}

(* --------------------------- the HTTP response ------------------------ *)

StatusOK == 200
StatusInternalServerError == 500

\* a fresh http.ResponseWriter: status 0 while the header is unwritten, sent
\* the header as written with the status; broken: its Write fails
NewWriter(broken) ==
    [header |-> [ContentType |-> "none", NoSniff |-> FALSE], status |-> 0,
     sent |-> [ContentType |-> "none", NoSniff |-> FALSE], body |-> <<>>, broken |-> broken]

\* w.Header().Set("Content-Type", ct)
HeaderSet(rw, ct) == [rw EXCEPT !.header.ContentType = ct]

\* w.WriteHeader(code): only the first call writes the header
WriteHeader(rw, code) ==
    IF rw.status # 0 THEN rw ELSE [rw EXCEPT !.status = code, !.sent = rw.header]

\* w.Write(data): writes the header with 200 if it is unwritten
Write(rw, data) ==
    LET h == WriteHeader(rw, StatusOK)
    IN IF rw.broken THEN h ELSE [h EXCEPT !.body = Append(@, data)]

\* http.Error(w, msg, code)
HttpError(rw, msg, code) ==
    Write(WriteHeader([rw EXCEPT !.header =
                          [ContentType |-> "text/plain; charset=utf-8", NoSniff |-> TRUE]],
                      code),
          [text |-> msg])

\* err.Error()
ErrorText(err) == IF err.wrapped = "none" THEN <<err.kind>> ELSE <<err.kind, ": ", err.wrapped>>

NoField == <<>>

\* problem.New(problem.Title(title), problem.Wrap(err)).JSONString()
ProblemJSON(title, reason) == [problem |-> [title |-> title, reason |-> reason]]

\* a value encoding/json cannot encode
Unsupported == [unsupported |-> TRUE]
ErrMarshal == Err("json: unsupported type")
ErrWrite == Err("write: broken pipe")

\* json.NewEncoder(w).Encode(v): the value is marshalled first, then written
Encode(rw, v) ==
    IF v = Unsupported THEN [w |-> rw, err |-> ErrMarshal]
    ELSE [w |-> Write(rw, [json |-> v]), err |-> IF rw.broken THEN ErrWrite ELSE Nil]

\* mutant: the error of Encode ignored
RenderJSONNoFallback(rw, jsonModel) ==
    Encode(HeaderSet(rw, "application/json"), jsonModel).w

\* RenderJSON, lines 11-17: the writer after the call
RenderJSONWriter(rw, jsonModel) ==
    LET e == Encode(HeaderSet(rw, "application/json"), jsonModel)
    IN IF e.err # Nil
       THEN HttpError(e.w, ProblemJSON(NoField, ErrorText(e.err)), StatusInternalServerError)
       ELSE e.w

\* mutant: the error wrapped into the body whatever isProduction is
RenderProblemJSONAlwaysWrap(rw, isProduction, err) ==
    HttpError(rw, ProblemJSON("internal server error", ErrorText(err)),
              StatusInternalServerError)

\* RenderProblemJSON, lines 22-27: the writer after the call
RenderProblemJSONWriter(rw, isProduction, err) ==
    IF ~isProduction
    THEN HttpError(rw, ProblemJSON("internal server error", ErrorText(err)),
                   StatusInternalServerError)
    ELSE HttpError(rw, ProblemJSON("internal server error", NoField),
                   StatusInternalServerError)

\* log.Printf("internal server error: %s", err)
LogLine(err) == <<"internal server error: ">> \o ErrorText(err)

\* the values and errors handed to the render helpers
RenderValues == ProjectValues \cup {NoProject, Unsupported}
RenderErrors == {ErrProjectNotFound, ErrStorage, ErrContext, Wrap(ErrContext, "rollback error")}

(* -------------------------------- Init -------------------------------- *)

SeedRows ==
    {[org_id |-> "O1", title |-> "Alpha", description |-> SqlNull, active |-> TRUE],
     [org_id |-> "O2", title |-> "Alpha", description |-> NullString("x", TRUE),
      active |-> FALSE]}

\* activity rows 1..MaxActs, each of a stored project and its organization
SeedActivities(projs) ==
    LET stored == {p \in ProjectIDs : projs[p] # NoRow}
    IN {{[id |-> i, project_id |-> f[i], org_id |-> projs[f[i]].org_id] :
            i \in {j \in 1..MaxActs : f[j] # "none"}} :
        f \in [1..MaxActs -> stored \cup {"none"}]}

Init ==
    /\ projects \in [ProjectIDs -> SeedRows \cup {NoRow}]
    /\ activities \in SeedActivities(projects)
    /\ call = [c \in Callers |-> IdleCall]
    /\ leaked = {}
    /\ last = NoCall
    /\ listing = NoListing
    /\ nops = 0
    /\ nfaults = 0
    /\ w = NewWriter(FALSE)
    /\ logged = <<>>
    /\ rendered = <<>>

(* ------------------------------ the calls ----------------------------- *)

Hist(fault, cancelled, matched, began, ended, changed) ==
    [fault |-> fault, cancelled |-> cancelled, matched |-> matched,
     began |-> began, ended |-> ended, changed |-> changed,
     acts |-> 0, err |-> Nil, rb |-> Nil]

\* a row of the key (pid, org) is stored
Stored(pid, org) == projects[pid] # NoRow /\ projects[pid].org_id = org

Failed(o) == [res |-> FaultErr(o), out |-> NoProject]

\* connPool.QueryRow(...).Scan of one projects row by its key: o is what
\* the store call does
QueryRowProject(projs, pid, org, o) ==
    IF o # "ok" THEN [err |-> FaultErr(o), id |-> pid, row |-> NoRow]
    ELSE IF WhereProject(projs, pid, org)
         THEN [err |-> Nil, id |-> pid, row |-> projs[pid]]
         ELSE [err |-> ErrNoRows, id |-> pid, row |-> NoRow]

\* mutant: UPDATE ... WHERE project_id = $1, the organization not compared
UpdateStmtByID(projs, pid, org, project) ==
    IF projs[pid] # NoRow
    THEN [projs EXCEPT ![pid] = UpdateSet(@, project)]
    ELSE projs

\* the table projects after UPDATE ... WHERE project_id = $1 AND org_id = $2
UpdateStmt(projs, pid, org, project) ==
    IF WhereProject(projs, pid, org)
    THEN [projs EXCEPT ![pid] = UpdateSet(@, project)]
    ELSE projs

\* FindProjectByID, lines 143-174: one store call
FindProjectByID(c, org, id) ==
    /\ call[c].pc = "idle"
    /\ nops < MaxOps
    /\ \E o \in Outcomes(FALSE) :
        /\ last' = Returned(c, "FindProjectByID", [NoArgs EXCEPT !.org = org, !.id = id],
                        FindProjectByIDReturn(QueryRowProject(projects, id, org, o)),
                        Hist(o # "ok", o = "cancel", Stored(id, org), FALSE, "none", FALSE))
        /\ nfaults' = nfaults + Charge(o, FALSE)
    /\ nops' = nops + 1
    /\ UNCHANGED <<projects, activities, call, leaked, listing, w, logged, rendered>>

\* UpdateProject, lines 210-231: one store call; the statement waits while
\* the row it matches is written by an open transaction
UpdateProject(c, org, project) ==
    /\ call[c].pc = "idle"
    /\ nops < MaxOps
    /\ \E o \in Outcomes(FALSE) :
        /\ o = "ok" /\ WhereProject(projects, project.ID, org)
              => project.ID \notin LockedProjects(c)
        /\ projects' = IF o = "ok" THEN UpdateStmt(projects, project.ID, org, project)
                       ELSE projects
        /\ last' = Returned(c, "UpdateProject",
                        [NoArgs EXCEPT !.org = org, !.id = project.ID, !.project = project],
                        UpdateProjectReturn(QueryRowProject(projects, project.ID, org, o),
                                            project),
                        Hist(o # "ok", o = "cancel", Stored(project.ID, org),
                             FALSE, "none", projects' # projects))
        /\ nfaults' = nfaults + Charge(o, FALSE)
    /\ listing' = IF projects' = projects THEN listing ELSE NoListing
    /\ nops' = nops + 1
    /\ UNCHANGED <<activities, call, leaked, w, logged, rendered>>

\* FindProjects, lines 45-80: the page query
FindProjectsQuery(c, org, size, page) ==
    /\ call[c].pc = "idle"
    /\ nops < MaxOps
    /\ \E o \in Outcomes(FALSE) :
        /\ nfaults' = nfaults + Charge(o, FALSE)
        /\ IF o = "ok"
           THEN \E s \in OrderByTitle(projects, SelectProjects(projects, org)) :
                   LET ids == LimitOffset(s, size, Offset(size, page))
                       rows == [i \in 1..Len(ids) |-> ScanProject(ids[i], projects[ids[i]])]
                   IN /\ call' = [call EXCEPT ![c] =
                                     [IdleCall EXCEPT !.pc = "fp_count", !.org = org,
                                                      !.size = size, !.page = page,
                                                      !.rows = rows]]
                      /\ listing' = ListingAfter(org, size, page, rows)
                      /\ last' = last
           ELSE /\ last' = Returned(c, "FindProjects",
                               [NoArgs EXCEPT !.org = org, !.size = size, !.page = page],
                               Failed(o),
                               Hist(TRUE, o = "cancel", FALSE, FALSE, "none", FALSE))
                /\ UNCHANGED <<call, listing>>
    /\ nops' = nops + 1
    /\ UNCHANGED <<projects, activities, leaked, w, logged, rendered>>

\* FindProjects, lines 82-100: the count query and the paged result
FindProjectsCount(c) ==
    LET cl == call[c] IN
    /\ cl.pc = "fp_count"
    /\ \E o \in Outcomes(cl.cancelled) :
        /\ nfaults' = nfaults + Charge(o, cl.cancelled)
        /\ last' = Returned(c, "FindProjects", ArgsOf(cl),
                        IF o = "ok"
                        THEN [res |-> Nil,
                              out |-> [Projects |-> cl.rows,
                                       Page |-> PageOfTotal(cl.size, cl.page,
                                           Cardinality(SelectProjects(projects, cl.org)))]]
                        ELSE Failed(o),
                        Hist(o # "ok", o = "cancel", FALSE, FALSE, "none", FALSE))
        /\ listing' = IF o = "ok" THEN listing ELSE NoListing
    /\ call' = [call EXCEPT ![c] = IdleCall]
    /\ UNCHANGED <<projects, activities, leaked, nops, w, logged, rendered>>

\* FindProjectsByIDs, lines 103-141: one store call
FindProjectsByIDs(c, org, ids) ==
    /\ call[c].pc = "idle"
    /\ nops < MaxOps
    /\ \E o \in Outcomes(FALSE) :
        /\ nfaults' = nfaults + Charge(o, FALSE)
        /\ \E s \in OrderByTitle(projects, WhereAnyID(projects, org, ids)) :
              last' = Returned(c, "FindProjectsByIDs",
                         [NoArgs EXCEPT !.org = org, !.ids = ids],
                         IF o = "ok"
                         THEN [res |-> Nil,
                               out |-> [i \in 1..Len(s) |-> ScanProject(s[i], projects[s[i]])]]
                         ELSE Failed(o),
                         Hist(o # "ok", o = "cancel", FALSE, FALSE, "none", FALSE))
    /\ nops' = nops + 1
    /\ UNCHANGED <<projects, activities, call, leaked, listing, w, logged, rendered>>

\* connPool.Begin of InsertProject (line 177) and DeleteProjectByID (line 234)
Begin(c, op, pc, args) ==
    /\ call[c].pc = "idle"
    /\ nops < MaxOps
    /\ \E o \in Outcomes(FALSE) :
        /\ nfaults' = nfaults + Charge(o, FALSE)
        /\ IF o = "ok"
           THEN /\ call' = [call EXCEPT ![c] =
                               [IdleCall EXCEPT !.pc = pc, !.org = args.org, !.id = args.id,
                                                !.project = args.project]]
                /\ last' = last
           ELSE /\ last' = Returned(c, op, args, Failed(o),
                               Hist(TRUE, o = "cancel", FALSE, FALSE, "none", FALSE))
                /\ call' = call
    /\ nops' = nops + 1
    /\ UNCHANGED <<projects, activities, leaked, listing, w, logged, rendered>>

\* tx.Rollback after a failed statement and the return that follows it;
\* scan tells the rollback after row.Scan of DeleteProjectByID from the others
Rollback(c, op, pc, scan) ==
    LET cl == call[c]
        ret(err, rb) == IF scan THEN ScanRollbackReturn(err, rb) ELSE RollbackReturn(err, rb)
    IN
    /\ cl.pc = pc
    /\ \E o \in Outcomes(cl.cancelled) :
        /\ nfaults' = nfaults + Charge(o, cl.cancelled)
        /\ last' = Returned(c, op, ArgsOf(cl),
                        [res |-> ret(cl.err, IF o = "ok" THEN Nil ELSE FaultErr(o)),
                         out |-> NoProject],
                        [Hist(cl.fault \/ o # "ok", cl.cancelled \/ o = "cancel",
                              cl.matched, TRUE, "rollback", FALSE)
                            EXCEPT !.acts = Cardinality(cl.tx.acts), !.err = cl.err,
                                   !.rb = IF o = "ok" THEN Nil ELSE FaultErr(o)])
    /\ call' = [call EXCEPT ![c] = IdleCall]
    /\ UNCHANGED <<projects, activities, leaked, listing, nops, w, logged, rendered>>

\* tx.Commit and the return that follows it: a Commit that fails commits
\* nothing
Commit(c, op, pc, out) ==
    LET cl == call[c] IN
    /\ cl.pc = pc
    /\ \E o \in Outcomes(cl.cancelled) :
        /\ nfaults' = nfaults + Charge(o, cl.cancelled)
        /\ projects' = IF o = "ok" THEN CommitProjects(projects, cl.tx) ELSE projects
        /\ activities' = IF o = "ok" THEN CommitActivities(activities, cl.tx) ELSE activities
        /\ last' = Returned(c, op, ArgsOf(cl),
                        IF o = "ok" THEN [res |-> Nil, out |-> out] ELSE Failed(o),
                        [Hist(cl.fault \/ o # "ok", cl.cancelled \/ o = "cancel",
                              cl.matched, TRUE, "commit",
                              projects' # projects \/ activities' # activities)
                            EXCEPT !.acts = Cardinality(cl.tx.acts)])
    /\ listing' = IF projects' = projects THEN listing ELSE NoListing
    /\ call' = [call EXCEPT ![c] = IdleCall]
    /\ UNCHANGED <<leaked, nops, w, logged, rendered>>

\* a statement of a transaction failed: keep the error and go to the rollback
StatementFailed(cl, err, o, pc) ==
    [cl EXCEPT !.pc = pc, !.err = err, !.fault = @ \/ o # "ok",
               !.cancelled = @ \/ o = "cancel"]

\* InsertProject, line 177
InsertBegin(c, project) ==
    Begin(c, "InsertProject", "ins_exec",
          [NoArgs EXCEPT !.org = project.OrganizationID, !.id = project.ID,
                         !.project = project])

\* InsertProject, lines 182-194: tx.Exec of the INSERT; it waits while an
\* open transaction writes a row of the same project_id, and fails on a
\* committed row of the same project_id
InsertExec(c) ==
    LET cl == call[c] IN
    /\ cl.pc = "ins_exec"
    /\ \E o \in Outcomes(cl.cancelled) :
        /\ o = "ok" => cl.id \notin LockedProjects(c)
        /\ nfaults' = nfaults + Charge(o, cl.cancelled)
        /\ call' = [call EXCEPT ![c] =
              IF o # "ok" THEN StatementFailed(cl, FaultErr(o), o, "ins_rollback")
              ELSE IF projects[cl.id] # NoRow
                   THEN StatementFailed(cl, ErrStorage, o, "ins_rollback")
                   ELSE [cl EXCEPT !.pc = "ins_commit",
                                   !.tx.ins = {[id |-> cl.id, row |-> InsertValues(cl.project)]}]]
    /\ UNCHANGED <<projects, activities, leaked, last, listing, nops, w, logged, rendered>>

\* InsertProject, lines 195-199
InsertRollback(c) == Rollback(c, "InsertProject", "ins_rollback", FALSE)

\* InsertProject, lines 202-207
InsertCommit(c) == Commit(c, "InsertProject", "ins_commit", call[c].project)

\* DeleteProjectByID, line 234
DeleteBegin(c, org, id) ==
    Begin(c, "DeleteProjectByID", "del_exec", [NoArgs EXCEPT !.org = org, !.id = id])

\* DeleteProjectByID, lines 239-245: tx.Exec of DELETE FROM activities; it
\* waits while an open transaction writes one of the rows
DeleteExec(c) ==
    LET cl == call[c] IN
    /\ cl.pc = "del_exec"
    /\ \E o \in Outcomes(cl.cancelled) :
        /\ o = "ok" => WhereActivities(activities, cl.id, cl.org) \cap LockedActivities(c) = {}
        /\ nfaults' = nfaults + Charge(o, cl.cancelled)
        /\ IF o = "ok"
           THEN LET e == ExecDeleteActivities(activities, cl.tx, cl.id, cl.org)
                IN /\ activities' = e.activities
                   /\ call' = [call EXCEPT ![c] = [cl EXCEPT !.pc = "del_query", !.tx = e.tx]]
           ELSE /\ activities' = activities
                /\ call' = [call EXCEPT ![c] =
                               StatementFailed(cl, FaultErr(o), o, "del_rollback")]
    /\ UNCHANGED <<projects, leaked, last, listing, nops, w, logged, rendered>>

\* DeleteProjectByID, lines 246-250
DeleteRollback(c) == Rollback(c, "DeleteProjectByID", "del_rollback", FALSE)

\* the identifiers RETURNING project_id can hand back for the deleted row:
\* the row's own, or, from a store that returns an unexpected row, another
ReturnedIDs(pid, cancelled) ==
    IF ~cancelled /\ nfaults < MaxFaults THEN ProjectIDs ELSE {pid}

\* DeleteProjectByID, lines 253-277: tx.QueryRow of DELETE FROM projects
\* RETURNING project_id, row.Scan and the comparison of the returned
\* identifier; the statement waits while an open transaction writes the row
DeleteQuery(c) ==
    LET cl == call[c]
        matched == WhereProject(projects, cl.id, cl.org)
    IN
    /\ cl.pc = "del_query"
    /\ \E o \in Outcomes(cl.cancelled) :
        /\ o = "ok" /\ matched => cl.id \notin LockedProjects(c)
        /\ IF o # "ok" \/ ~matched
           THEN /\ call' = [call EXCEPT ![c] =
                       [StatementFailed(cl, QueryRowProject(projects, cl.id, cl.org, o).err,
                                        o, "del_scan_rollback")
                           EXCEPT !.matched = Stored(cl.id, cl.org)]]
                /\ nfaults' = nfaults + Charge(o, cl.cancelled)
                /\ UNCHANGED <<leaked, last>>
           ELSE \E id \in ReturnedIDs(cl.id, cl.cancelled) :
                   LET tx == [cl.tx EXCEPT !.del = {cl.id}] IN
                   IF id # cl.id
                   THEN /\ last' = Returned(c, "DeleteProjectByID", ArgsOf(cl),
                                       [res |-> ErrProjectNotFound, out |-> NoProject],
                                       [Hist(TRUE, cl.cancelled, Stored(cl.id, cl.org), TRUE,
                                             "none", FALSE)
                                           EXCEPT !.acts = Cardinality(cl.tx.acts)])
                        /\ leaked' = leaked \cup {tx}
                        /\ call' = [call EXCEPT ![c] = IdleCall]
                        /\ nfaults' = nfaults + 1
                   ELSE /\ call' = [call EXCEPT ![c] =
                               [cl EXCEPT !.pc = "del_commit", !.tx = tx,
                                          !.matched = Stored(cl.id, cl.org)]]
                        /\ nfaults' = nfaults
                        /\ UNCHANGED <<leaked, last>>
    /\ UNCHANGED <<projects, activities, listing, nops, w, logged, rendered>>

\* DeleteProjectByID, lines 263-272
DeleteScanRollback(c) ==
    Rollback(c, "DeleteProjectByID", "del_scan_rollback", TRUE)

\* DeleteProjectByID, lines 279-284
DeleteCommit(c) == Commit(c, "DeleteProjectByID", "del_commit", NoProject)

(* ---------------------------- specification --------------------------- *)

Next ==
    \E c \in Callers :
        \/ \E org \in Orgs, id \in ProjectIDs : FindProjectByID(c, org, id)
        \/ \E org \in Orgs, project \in ProjectValues : UpdateProject(c, org, project)
        \/ \E org \in Orgs, size \in PageSizes, page \in PageNumbers :
              FindProjectsQuery(c, org, size, page)
        \/ FindProjectsCount(c)
        \/ \E org \in Orgs, ids \in SUBSET ProjectIDs : FindProjectsByIDs(c, org, ids)
        \/ \E project \in ProjectValues : InsertBegin(c, project)
        \/ InsertExec(c)
        \/ InsertRollback(c)
        \/ InsertCommit(c)
        \/ \E org \in Orgs, id \in ProjectIDs : DeleteBegin(c, org, id)
        \/ DeleteExec(c)
        \/ DeleteRollback(c)
        \/ DeleteQuery(c)
        \/ DeleteScanRollback(c)
        \/ DeleteCommit(c)

Spec == Init /\ [][Next]_vars

(* --------------------------- the render helpers ----------------------- *)

repo == <<projects, activities, call, leaked, last, listing, nops, nfaults>>

\* RenderJSON, lines 11-17, on the fresh writer of a request
RenderJSON(jsonModel, broken) ==
    /\ Len(rendered) < MaxRenders
    /\ w' = RenderJSONWriter(NewWriter(broken), jsonModel)
    /\ rendered' = Append(rendered,
            [fn |-> "RenderJSON", production |-> FALSE, err |-> Nil, value |-> jsonModel,
             broken |-> broken, w |-> w'])
    /\ UNCHANGED <<logged, repo>>

\* RenderProblemJSON, lines 19-28, on the fresh writer of a request
RenderProblemJSON(isProduction, err, broken) ==
    /\ Len(rendered) < MaxRenders
    /\ logged' = Append(logged, LogLine(err))
    /\ w' = RenderProblemJSONWriter(NewWriter(broken), isProduction, err)
    /\ rendered' = Append(rendered,
            [fn |-> "RenderProblemJSON", production |-> isProduction, err |-> err,
             value |-> NoProject, broken |-> broken, w |-> w'])
    /\ UNCHANGED repo

NextRender ==
    \/ \E v \in RenderValues, broken \in BOOLEAN : RenderJSON(v, broken)
    \/ \E p \in BOOLEAN, err \in RenderErrors, broken \in BOOLEAN :
          RenderProblemJSON(p, err, broken)

SpecRender == Init /\ [][NextRender]_vars

(* ------------------------------- claims ------------------------------- *)

Mutating == {"UpdateProject", "DeleteProjectByID"}
Transactional == {"InsertProject", "DeleteProjectByID"}

\* C1: tenant isolation of the point lookup.  A FindProjectByID never
\* returns a project whose row is stored under another organization; when
\* its store call does not fail, it returns ErrProjectNotFound for an
\* identifier stored under another organization (or not stored), and for an
\* identifier stored under the organization it returns the row's current
\* title, description and active flag.
C1_TenantIsolation ==
    last.op = "FindProjectByID" =>
        LET row == projects[last.id]
            own == row # NoRow /\ row.org_id = last.org
        IN /\ last.res = Nil => own
           /\ ~last.fault /\ ~own => last.res = ErrProjectNotFound /\ last.out = NoProject
           /\ ~last.fault /\ own =>
                 /\ last.res = Nil
                 /\ last.out.ID = last.id
                 /\ last.out.Title = row.title
                 /\ last.out.Description = row.description.String
                 /\ last.out.Active = row.active

\* C1 witness: after another call, a lookup with the other organization of
\* a stored project returned ErrProjectNotFound
C1_Witness ==
    /\ last.op = "FindProjectByID"
    /\ last.n >= 2
    /\ projects[last.id] # NoRow
    /\ projects[last.id].org_id # last.org
    /\ last.res = ErrProjectNotFound

\* C2: cascading delete.  After DeleteProjectByID(O, P) returned nil, no
\* row of P under O is stored, a lookup of (O, P) yields ErrProjectNotFound,
\* and no activity row of project P and organization O is stored; the
\* FindProjectByID(O, P) that follows the delete returns ErrProjectNotFound
\* unless its store call fails.
C2_CascadingDelete ==
    /\ last.op = "DeleteProjectByID" /\ last.res = Nil =>
          /\ ~Stored(last.id, last.org)
          /\ \A a \in activities : ~(a.project_id = last.id /\ a.org_id = last.org)
    /\ last.op = "FindProjectByID" /\ last.prev.op = "DeleteProjectByID" /\ ~last.fault =>
          /\ last.res = ErrProjectNotFound
          /\ \A a \in activities : ~(a.project_id = last.id /\ a.org_id = last.org)

\* C2 witness: a delete that removed activity rows returned nil
C2_Witness ==
    /\ last.op = "DeleteProjectByID"
    /\ last.res = Nil
    /\ last.acts > 0

\* C3: UpdateProject and DeleteProjectByID on a key that is the key of no
\* stored row (no such project, or the project of another organization)
\* leave the committed tables as they are and, unless a store call fails,
\* return ErrProjectNotFound.
C3_NotFoundNoEffect ==
    last.op \in Mutating /\ ~last.matched =>
        /\ ~last.changed
        /\ last.res # Nil
        /\ ~last.fault => last.res = ErrProjectNotFound

\* C3 witness: a delete with the other organization of a stored project that
\* has activity rows returned ErrProjectNotFound
C3_Witness ==
    /\ last.op = "DeleteProjectByID"
    /\ ~last.matched
    /\ last.res = ErrProjectNotFound
    /\ projects[last.id] # NoRow
    /\ \E a \in activities : a.project_id = last.id

\* the committed tables after the whole insert of caller c
InsertApplied(c) ==
    /\ call[c].pc = "ins_commit"
    /\ projects' = [projects EXCEPT ![call[c].id] =
            [org_id |-> call[c].project.OrganizationID,
             title |-> call[c].project.Title,
             description |-> [String |-> call[c].project.Description, Valid |-> TRUE],
             active |-> call[c].project.Active]]
    /\ activities' = activities

\* the committed tables after the whole delete of caller c
DeleteApplied(c) ==
    /\ call[c].pc = "del_commit"
    /\ projects' = [projects EXCEPT ![call[c].id] = NoRow]
    /\ activities' =
          {a \in activities : ~(a.project_id = call[c].id /\ a.org_id = call[c].org)}

\* C4: atomicity of InsertProject and DeleteProjectByID.  Every step leaves
\* the committed tables as they are, or applies all effects of one insert
\* or of one delete (the activity rows of the project and the project row
\* together), or is the single statement of an UpdateProject; activity rows
\* never leave the committed table while their project row stays.
C4_Atomic ==
    [][/\ \/ projects' = projects /\ activities' = activities
          \/ \E c \in Callers : InsertApplied(c) \/ DeleteApplied(c)
          \/ last'.op = "UpdateProject" /\ last'.n # last.n /\ activities' = activities
       /\ \A a \in activities \ activities' : projects'[a.project_id] = NoRow]_vars

\* C4 witness: a delete whose transaction had deleted activity rows was
\* rolled back after its project statement failed, nothing committed
C4_Witness ==
    /\ last.op = "DeleteProjectByID"
    /\ last.ended = "rollback"
    /\ last.acts > 0
    /\ last.matched
    /\ \E a \in activities : a.project_id = last.id /\ a.org_id = last.org

\* C5: rollback-failure escalation.  A call of InsertProject or
\* DeleteProjectByID that rolled back returns the error of the failed
\* statement when the Rollback succeeded (ErrProjectNotFound when the
\* project delete matched no row), and the wrapped Rollback error when the
\* Rollback failed, also in place of ErrProjectNotFound.
C5_RollbackEscalation ==
    last.op \in Transactional /\ last.ended = "rollback" =>
        /\ last.err # Nil
        /\ last.rb = Nil =>
              last.res = IF last.err = ErrNoRows THEN ErrProjectNotFound ELSE last.err
        /\ last.rb # Nil =>
              last.res = [kind |-> "rollback error", wrapped |-> last.rb.kind]

\* C5 witness: the project delete matched no row and the Rollback failed
C5_Witness ==
    /\ last.op = "DeleteProjectByID"
    /\ last.ended = "rollback"
    /\ last.err = ErrNoRows
    /\ last.rb # Nil
    /\ last.res.kind = "rollback error"

\* C6: no transaction is leaked.  Every returned call of InsertProject or
\* DeleteProjectByID that began a transaction called Commit or Rollback on
\* it, whatever it returns.
C6_NoLeak ==
    last.op \in Transactional /\ last.began => last.ended \in {"commit", "rollback"}

\* C7: cancellation.  A FindProjectByID, UpdateProject, InsertProject or
\* DeleteProjectByID whose context was cancelled during a store call returns
\* an error other than ErrProjectNotFound; the transaction it began, if any,
\* was ended by Rollback or by the failed Commit and committed nothing.
C7_Cancellation ==
    /\ last.op \in {"FindProjectByID", "UpdateProject", "InsertProject", "DeleteProjectByID"}
    /\ last.cancelled
    => /\ last.res # Nil
       /\ last.res # ErrProjectNotFound
       /\ last.began => ~last.changed /\ last.ended \in {"commit", "rollback"}

\* C7 witness: a delete cancelled after its transaction had deleted activity
\* rows; the rows are still stored
C7_Witness ==
    /\ last.op = "DeleteProjectByID"
    /\ last.cancelled
    /\ last.acts > 0
    /\ \E a \in activities : a.project_id = last.id /\ a.org_id = last.org

\* C8: insert/find round trip.  The FindProjectByID(O, P.ID) that follows a
\* successful InsertProject(P) returns, when it succeeds, a Project equal to
\* P in every field.
C8_RoundTrip ==
    last.op = "FindProjectByID" /\ last.prev.op = "InsertProject" /\ last.res = Nil =>
        last.out = last.prev.project

\* C9: UpdateProject is idempotent.  An UpdateProject(O, U) that follows a
\* successful UpdateProject(O, U) succeeds, unless its store call fails, and
\* leaves the committed tables as the first left them.
C9_UpdateIdempotent ==
    /\ last.op = "UpdateProject"
    /\ last.prev.op = "UpdateProject"
    /\ last.prev.project = last.project
    /\ ~last.fault
    => /\ last.res = Nil
       /\ last.out = last.project
       /\ ~last.changed

\* C9 witness: the same update succeeded twice in a row
C9_Witness ==
    /\ last.op = "UpdateProject"
    /\ last.prev.op = "UpdateProject"
    /\ last.prev.project = last.project
    /\ last.res = Nil
    /\ projects[last.id].title = last.project.Title

RECURSIVE Concat(_)
Concat(pages) == IF pages = <<>> THEN <<>> ELSE Head(pages) \o Concat(Tail(pages))

\* C10: pagination is complete and duplicate-free.  Once FindProjects has
\* returned the pages 1..ceil(total/S) of an organization over an unchanged
\* store, their concatenation holds each project of the organization exactly
\* once, in ascending order of title.
C10_PaginationComplete ==
    LET ids == SelectProjects(projects, listing.org)
        total == Cardinality(ids)
        all == Concat(listing.pages)
    IN /\ listing.pages # <<>>
       /\ \A c \in Callers : call[c].pc # "fp_count"
       /\ (Len(listing.pages) - 1) * listing.size < total
       /\ total <= Len(listing.pages) * listing.size
       => /\ Len(all) = total
          /\ {all[i].ID : i \in 1..Len(all)} = ids
          /\ \A i \in 1..(Len(all) - 1) : TitleRank(all[i].Title) <= TitleRank(all[i + 1].Title)

\* C11: FindProjectsByIDs(O, ids) whose store call does not fail returns no
\* error and exactly the stored projects whose identifier is in ids and
\* whose organization is O, each once with its row's values, in ascending
\* order of title; missing and foreign identifiers are left out, and an
\* empty ids yields an empty result.
C11_BatchLookup ==
    last.op = "FindProjectsByIDs" /\ ~last.fault =>
        LET own == {p \in last.ids : projects[p] # NoRow /\ projects[p].org_id = last.org}
            out == last.out
        IN /\ last.res = Nil
           /\ Len(out) = Cardinality(own)
           /\ {out[i].ID : i \in 1..Len(out)} = own
           /\ \A i \in 1..Len(out) :
                 /\ out[i].Title = projects[out[i].ID].title
                 /\ out[i].Description = projects[out[i].ID].description.String
                 /\ out[i].Active = projects[out[i].ID].active
           /\ \A i \in 1..(Len(out) - 1) : TitleRank(out[i].Title) <= TitleRank(out[i + 1].Title)
           /\ last.ids = {} => out = <<>>

\* C11 witness: of two requested identifiers one is stored under the
\* organization and returned, the other is stored under another organization
C11_Witness ==
    /\ last.op = "FindProjectsByIDs"
    /\ last.res = Nil
    /\ last.ids = ProjectIDs
    /\ Len(last.out) = 1
    /\ \E p \in last.ids : projects[p] # NoRow /\ projects[p].org_id # last.org

\* the title, description and active of a stored row are those of a Project
RowHolds(row, project) ==
    /\ row.title = project.Title
    /\ row.description = NullString(project.Description, TRUE)
    /\ row.active = project.Active

\* C14: concurrent updates are last-write-wins without field mixing.  When
\* UpdateProject(O, U2) of one caller follows the successful
\* UpdateProject(O, U1) of another caller on the same stored project, it
\* succeeds too, unless its store call fails, and the stored title,
\* description and active are all those of U2, the last write; a failed
\* second call leaves all those of U1.
C14_LastWriteWins ==
    /\ last.op = "UpdateProject"
    /\ last.prev.op = "UpdateProject"
    /\ last.prev.caller # last.caller
    /\ last.prev.project.ID = last.project.ID
    => /\ projects[last.id] # NoRow
       /\ IF last.fault
          THEN RowHolds(projects[last.id], last.prev.project)
          ELSE /\ last.res = Nil
               /\ RowHolds(projects[last.id], last.project)

\* C14 witness: two callers updated the same project with values that
\* differ in every field, and both succeeded
C14_Witness ==
    /\ last.op = "UpdateProject"
    /\ last.prev.op = "UpdateProject"
    /\ last.prev.caller # last.caller
    /\ last.res = Nil
    /\ last.prev.project.Title # last.project.Title
    /\ last.prev.project.Description # last.project.Description
    /\ last.prev.project.Active # last.project.Active
    /\ RowHolds(projects[last.id], last.project)

\* C15: identity and ownership are immutable.  No step changes the
\* organization of a stored row; a step in which UpdateProject(O, U) returns
\* changes at most the row U.ID, only when it is stored under O (the
\* argument, whatever U.OrganizationID is), only in its title, description
\* and active, and leaves every other project row and every activity row
\* unchanged.
C15_Immutable ==
    [][/\ \A p \in ProjectIDs :
             projects[p] # NoRow /\ projects'[p] # NoRow =>
                 projects'[p].org_id = projects[p].org_id
       /\ last'.n # last.n /\ last'.op = "UpdateProject" =>
             LET id == last'.id IN
             /\ activities' = activities
             /\ \A p \in ProjectIDs \ {id} : projects'[p] = projects[p]
             /\ projects'[id] # projects[id] =>
                   /\ projects[id] # NoRow
                   /\ projects[id].org_id = last'.org
                   /\ projects'[id] # NoRow
                   /\ projects'[id] =
                         [org_id |-> projects[id].org_id,
                          title |-> last'.project.Title,
                          description |-> NullString(last'.project.Description, TRUE),
                          active |-> last'.project.Active]
             /\ ~(projects[id] # NoRow /\ projects[id].org_id = last'.org) =>
                   projects' = projects
      ]_vars

\* C15 witness: an update whose Project names another organization than the
\* argument changed the row stored under the argument
C15_Witness ==
    /\ last.op = "UpdateProject"
    /\ last.res = Nil
    /\ last.changed
    /\ last.project.OrganizationID # last.org
    /\ projects[last.id] # NoRow
    /\ projects[last.id].org_id = last.org
    /\ RowHolds(projects[last.id], last.project)

\* C16: the page and its total are consistent under concurrency.  In every
\* result of FindProjects the number of projects on the page does not
\* exceed the total item count of the same result's page metadata.
C16_PageWithinTotal ==
    last.op = "FindProjects" /\ last.res = Nil =>
        Len(last.out.Projects) <= last.out.Page.TotalElements

Renders(fn) == {i \in 1..Len(rendered) : rendered[i].fn = fn}

\* C12: no error detail leaks in production mode.  Any two
\* RenderProblemJSON calls in production mode, whatever their errors, write
\* the same body, which holds the title "internal server error" and
\* nothing of the error, with the same status; in both modes the status is
\* 500 and the error is in the log.
C12_NoLeakInProduction ==
    LET calls == Renders("RenderProblemJSON") IN
    /\ \A i, j \in calls :
          rendered[i].production /\ rendered[j].production
          /\ rendered[i].broken = rendered[j].broken
          => /\ rendered[i].w.body = rendered[j].w.body
             /\ rendered[i].w.status = rendered[j].w.status
    /\ \A i \in calls :
          /\ rendered[i].w.status = 500
          /\ \E k \in 1..Len(logged) : logged[k] = <<"internal server error: ">> \o ErrorText(rendered[i].err)
          /\ rendered[i].production /\ ~rendered[i].broken =>
                rendered[i].w.body =
                    <<[text |-> [problem |-> [title |-> "internal server error", reason |-> <<>>]]]>>

\* C12 witness: two production-mode calls with different errors
C12_Witness ==
    \E i, j \in Renders("RenderProblemJSON") :
        /\ rendered[i].production /\ rendered[j].production
        /\ rendered[i].err # rendered[j].err
        /\ ~rendered[i].broken /\ ~rendered[j].broken

\* C13: RenderJSON writes the JSON encoding of the value with content type
\* application/json and status 200 when the value encodes; when the value
\* does not encode it writes status 500 and a problem body that holds the
\* encoding error, and nothing of the value.
C13_RenderJSON ==
    \A i \in Renders("RenderJSON") :
        LET r == rendered[i] IN
        /\ r.value # Unsupported /\ ~r.broken =>
              /\ r.w.sent.ContentType = "application/json"
              /\ r.w.status = 200
              /\ r.w.body = <<[json |-> r.value]>>
        /\ r.value = Unsupported =>
              /\ r.w.status = 500
              /\ ~r.broken =>
                    r.w.body = <<[text |-> [problem |-> [title |-> <<>>,
                                                         reason |-> <<"json: unsupported type">>]]]>>

\* C13 witness: a value that does not encode was rendered
C13_Witness ==
    \E i \in Renders("RenderJSON") : rendered[i].value = Unsupported /\ ~rendered[i].broken

====
